---- MODULE Spec2Model ----
(***************************************************************************)
(* Model of the alpha core (packages/core): the indicator library          *)
(* (indicators.rs) and the analysis engine (analytics.rs).                 *)
(*                                                                         *)
(* Numbers.  An f64 is modelled as an exact decimal fixed-point number:    *)
(* the integer n stands for the real n / Unit.  Intermediate quotients are *)
(* kept as exact fractions until the code rounds them, so the model is the *)
(* code under real arithmetic; the binary representation error of f64 is   *)
(* not modelled.  The f64 value NaN is the reserved integer NaN.           *)
(* Indices are 0-based as in the source: At(s, i) is s[i].                 *)
(***************************************************************************)
EXTENDS Integers, Sequences, FiniteSets, TLC

\* ------------------------------------------------------------------ bounds
\* longest price series passed to an indicator function
MaxLen == 4
\* periods are drawn from 0..MaxPeriod
MaxPeriod == 3
\* the calculator's precision is drawn from 0..MaxPrecision
MaxPrecision == 1
\* prices are PriceStep * 1..MaxPriceK (in 1/Unit)
MaxPriceK == 3
\* the Bollinger multiplier std_dev is drawn from 0..MaxK
MaxK == 2
\* longest series passed to the analysis engine
MaxAnalysisLen == 16
\* Utc::now() is drawn from 1..MaxClock
MaxClock == 2
\* values passed to the rounding functions lie in -MaxValue..MaxValue
MaxValue == 2
\* calls made to the ConnectionManager in one run
MaxOps == 4

RECURSIVE Pow(_, _)
Pow(b, e) == IF e = 0 THEN 1 ELSE b * Pow(b, e - 1)

\* prices carry one decimal digit more than the largest precision
Digits == MaxPrecision + 1
Unit == Pow(10, Digits)
PriceStep == Unit \div 4
Prices == { PriceStep * k : k \in 1..MaxPriceK }
Periods == 0..MaxPeriod
Precisions == 0..MaxPrecision

NaN == 0 - Pow(2, 30)
IsNaN(x) == x = NaN

At(s, i) == s[i + 1]
Zeros(n) == [i \in 1..n |-> 0]
SetAt(s, i, v) == [s EXCEPT ![i + 1] = v]

\* a call either returns a value or panics (index out of bounds, or
\* arithmetic overflow in a build with overflow checks)
\* and a Result may be Err(AlphaError)
Ok(v) == [panic |-> FALSE, err |-> "none", val |-> v]
Err(e) == [panic |-> FALSE, err |-> e, val |-> <<>>]
Panic == [panic |-> TRUE, err |-> "none", val |-> <<>>]

\* ---------------------------------------------------------------- rounding
\* f64::round of the fraction a / b (b > 0): nearest integer, ties away from 0
RoundHalfAway(a, b) ==
    IF a >= 0 THEN (2 * a + b) \div (2 * b)
              ELSE 0 - ((2 * (0 - a) + b) \div (2 * b))

\* RoundTo that adds one half before it rounds
RoundTo_AddHalf(n, d, precision) ==
    LET multiplier == Pow(10, precision)
        grid == Unit \div multiplier
    IN  RoundHalfAway(2 * n + d * grid, 2 * d * grid) * grid

\* (n / d).round_to(precision), n / d in 1/Unit, the result in 1/Unit:
\* (self * 10^precision).round() / 10^precision
RoundTo(n, d, precision) ==
    LET multiplier == Pow(10, precision)
        grid == Unit \div multiplier
    IN  RoundHalfAway(n, d * grid) * grid

\* numeric::round_to that drops the fraction (as i64 in place of round())
numeric_round_to_Truncate(n, d, precision) ==
    LET multiplier == Pow(10, precision)
        scaled == IF n >= 0 THEN (n * multiplier) \div (d * Unit)
                  ELSE 0 - (((0 - n) * multiplier) \div (d * Unit))
    IN  (scaled * Unit) \div multiplier

\* utils::numeric::round_to(n / d, precision): the value times the
\* multiplier, rounded, and divided back
numeric_round_to(n, d, precision) ==
    LET multiplier == Pow(10, precision)
    IN  (RoundHalfAway(n * multiplier, d * Unit) * Unit) \div multiplier

\* the browser binding's Utils::round_to(n / d, precision)
Utils_round_to(n, d, precision) ==
    LET multiplier == Pow(10, precision)
    IN  (RoundHalfAway(n * multiplier, d * Unit) * Unit) \div multiplier

\* f64::sqrt, bracketed: the largest r with r * r <= n and the least r with r * r >= n
RECURSIVE ISqrtBin(_, _, _)
ISqrtBin(n, lo, hi) ==
    IF hi - lo <= 1 THEN lo
    ELSE LET mid == (lo + hi) \div 2
         IN  IF mid * mid <= n THEN ISqrtBin(n, mid, hi) ELSE ISqrtBin(n, lo, mid)
FloorSqrt(n) == IF n < 1 THEN 0 ELSE ISqrtBin(n, 1, 46341)
CeilSqrt(n) == LET r == FloorSqrt(n) IN IF r * r = n THEN r ELSE r + 1

\* floor of (a + s * sqrt(b)) / d for s in {1, -1}, b >= 0, d > 0
FloorDiv(a, d) == IF a >= 0 THEN a \div d ELSE 0 - ((0 - a + d - 1) \div d)
FloorSurd(a, s, b, d) ==
    IF s = 1 THEN FloorDiv(a + FloorSqrt(b), d) ELSE FloorDiv(a - CeilSqrt(b), d)

\* ((a + s * sqrt(b)) / d).round_to(precision), as RoundTo
RoundToSurd(a, s, b, d, precision) ==
    LET multiplier == Pow(10, precision)
        grid == Unit \div multiplier
        nonneg == IF s = 1 THEN (a >= 0 \/ a * a <= b) ELSE (a >= 0 /\ a * a >= b)
    IN  IF nonneg
        THEN FloorSurd(2 * a + d * grid, s, 4 * b, 2 * d * grid) * grid
        ELSE 0 - FloorSurd(d * grid - 2 * a, 0 - s, 4 * b, 2 * d * grid) * grid

\* ---------------------------------------------------------- exact fractions
\* an f64 that is not on the decimal grid (a return, a variance, a drawdown)
\* is the exact fraction n / d in lowest terms, d > 0
Abs(x) == IF x < 0 THEN 0 - x ELSE x
RECURSIVE GCD(_, _)
GCD(a, b) == IF b = 0 THEN a ELSE GCD(b, a % b)
Frac(n, d) == LET g == GCD(Abs(n), d) IN [n |-> n \div g, d |-> d \div g]
FInt(k) == [n |-> k, d |-> 1]
FAdd(x, y) ==
    LET l == (x.d \div GCD(x.d, y.d)) * y.d
    IN  Frac(x.n * (l \div x.d) + y.n * (l \div y.d), l)
FNeg(x) == [n |-> 0 - x.n, d |-> x.d]
FSub(x, y) == FAdd(x, FNeg(y))
FMul(x, y) ==
    LET g1 == GCD(Abs(x.n), y.d)
        g2 == GCD(Abs(y.n), x.d)
    IN  [n |-> (x.n \div g1) * (y.n \div g2), d |-> (x.d \div g2) * (y.d \div g1)]
\* x / y for y # 0
FDiv(x, y) ==
    IF y.n > 0 THEN FMul(x, [n |-> y.d, d |-> y.n])
    ELSE FMul(x, [n |-> 0 - y.d, d |-> 0 - y.n])
FLess(x, y) == x.n * y.d < y.n * x.d

\* ------------------------------------------------------------- indicators
VARIABLES
    precision,  \* TechnicalIndicators.precision
    data,       \* the caller's series of MarketData, the argument of every call
    call,       \* the last call made: its name and integer arguments
    ret         \* what that call returned

vars == <<precision, data, call, ret>>

PricesOf(d) == [i \in 1..Len(d) |-> d[i].price]
TimestampsOf(d) == [i \in 1..Len(d) |-> d[i].timestamp]

\* for i in 0..period { sum += prices[i] }
RECURSIVE SumFirst(_, _)
SumFirst(prices, n) == IF n = 0 THEN 0 ELSE SumFirst(prices, n - 1) + At(prices, n - 1)

\* SmaWindow that adds the new price and forgets to drop the oldest
RECURSIVE SmaWindow_NoDrop(_, _, _, _, _, _)
SmaWindow_NoDrop(prices, period, prec, i, sum, sma) ==
    IF i >= Len(prices) THEN sma
    ELSE LET s == sum + At(prices, i)
         IN  SmaWindow_NoDrop(prices, period, prec, i + 1, s,
                              SetAt(sma, i, RoundTo(s, period, prec)))

\* for i in period..prices.len(): the sliding window
RECURSIVE SmaWindow(_, _, _, _, _, _)
SmaWindow(prices, period, prec, i, sum, sma) ==
    IF i >= Len(prices) THEN sma
    ELSE LET s == sum - At(prices, i - period) + At(prices, i)
         IN  SmaWindow(prices, period, prec, i + 1, s,
                       SetAt(sma, i, RoundTo(s, period, prec)))

\* calculate_sma that returns an empty vector for a series shorter than the period
calculate_sma_ShortEmpty(prices, period, prec) ==
    IF Len(prices) < period THEN Ok(<<>>)
    ELSE IF period = 0 THEN Panic
    ELSE LET sum == SumFirst(prices, period)
             sma == SetAt(Zeros(Len(prices)), period - 1, RoundTo(sum, period, prec))
         IN  Ok(SmaWindow(prices, period, prec, period, sum, sma))

calculate_sma(prices, period, prec) ==
    IF Len(prices) < period THEN Ok(Zeros(Len(prices)))
    ELSE IF period = 0 THEN Panic   \* sma[period - 1]: 0usize - 1
    ELSE LET sum == SumFirst(prices, period)
             sma == SetAt(Zeros(Len(prices)), period - 1, RoundTo(sum, period, prec))
         IN  Ok(SmaWindow(prices, period, prec, period, sum, sma))

\* EmaLoop that smooths against the previous price, not the previous output
RECURSIVE EmaLoop_PrevPrice(_, _, _, _, _)
EmaLoop_PrevPrice(prices, period, prec, i, ema) ==
    IF i >= Len(prices) THEN ema
    ELSE LET prev == At(prices, i - 1)
             v == RoundTo((At(prices, i) - prev) * 2 + prev * (period + 1), period + 1, prec)
         IN  EmaLoop_PrevPrice(prices, period, prec, i + 1, SetAt(ema, i, v))

\* for i in 1..prices.len(): (prices[i] - ema[i-1]) * multiplier + ema[i-1],
\* multiplier = 2 / (period + 1)
RECURSIVE EmaLoop(_, _, _, _, _)
EmaLoop(prices, period, prec, i, ema) ==
    IF i >= Len(prices) THEN ema
    ELSE LET prev == At(ema, i - 1)
             v == RoundTo((At(prices, i) - prev) * 2 + prev * (period + 1), period + 1, prec)
         IN  EmaLoop(prices, period, prec, i + 1, SetAt(ema, i, v))

calculate_ema(prices, period, prec) ==
    IF Len(prices) = 0 THEN Ok(<<>>)
    ELSE Ok(EmaLoop(prices, period, prec, 1,
                    SetAt(Zeros(Len(prices)), 0, At(prices, 0))))

\* for i in 1..=period: the sums of the gains and of the losses
RECURSIVE RsiGains(_, _)
RsiGains(prices, n) ==
    IF n = 0 THEN 0
    ELSE LET change == At(prices, n) - At(prices, n - 1)
         IN  RsiGains(prices, n - 1) + (IF change > 0 THEN change ELSE 0)
\* RsiLosses that adds the size of every change, gains included
RECURSIVE RsiLosses_Abs(_, _)
RsiLosses_Abs(prices, n) ==
    IF n = 0 THEN 0
    ELSE RsiLosses_Abs(prices, n - 1) + Abs(At(prices, n) - At(prices, n - 1))

RECURSIVE RsiLosses(_, _)
RsiLosses(prices, n) ==
    IF n = 0 THEN 0
    ELSE LET change == At(prices, n) - At(prices, n - 1)
         IN  RsiLosses(prices, n - 1) + (IF change > 0 THEN 0 ELSE 0 - change)

\* RsiLoop that emits 100 * rs, the ratio as a percentage
RECURSIVE RsiLoop_Ratio(_, _, _, _, _, _, _, _)
RsiLoop_Ratio(prices, period, prec, i, g, l, den, rsi) ==
    IF i >= Len(prices) THEN rsi
    ELSE LET c == GCD(g, l)
             v == IF l = 0 THEN 100 * Unit
                  ELSE RoundTo(100 * Unit * (g \div c), l \div c, prec)
             out == SetAt(rsi, i, v)
         IN  IF i < Len(prices) - 1
             THEN LET change == At(prices, i + 1) - At(prices, i)
                      gain == IF change > 0 THEN change ELSE 0
                      loss == IF change < 0 THEN 0 - change ELSE 0
                  IN  RsiLoop_Ratio(prices, period, prec, i + 1,
                                    g * (period - 1) + gain * den,
                                    l * (period - 1) + loss * den,
                                    den * period, out)
             ELSE RsiLoop_Ratio(prices, period, prec, i + 1, g, l, den, out)

\* RsiLoop that updates the averages with the delta already counted
RECURSIVE RsiLoop_StaleDelta(_, _, _, _, _, _, _, _)
RsiLoop_StaleDelta(prices, period, prec, i, g, l, den, rsi) ==
    IF i >= Len(prices) THEN rsi
    ELSE LET c == GCD(g, l)
             v == IF l = 0 THEN 100 * Unit
                  ELSE RoundTo(100 * Unit * (g \div c), (g + l) \div c, prec)
             out == SetAt(rsi, i, v)
         IN  IF i < Len(prices) - 1
             THEN LET change == At(prices, i) - At(prices, i - 1)
                      gain == IF change > 0 THEN change ELSE 0
                      loss == IF change < 0 THEN 0 - change ELSE 0
                  IN  RsiLoop_StaleDelta(prices, period, prec, i + 1,
                                         g * (period - 1) + gain * den,
                                         l * (period - 1) + loss * den,
                                         den * period, out)
             ELSE RsiLoop_StaleDelta(prices, period, prec, i + 1, g, l, den, out)

\* for i in period..prices.len(); avg_gain = g / den and avg_loss = l / den
RECURSIVE RsiLoop(_, _, _, _, _, _, _, _)
RsiLoop(prices, period, prec, i, g, l, den, rsi) ==
    IF i >= Len(prices) THEN rsi
    ELSE LET c == GCD(g, l)
             \* 100 - 100 / (1 + rs), rs = avg_gain / avg_loss
             v == IF l = 0 THEN 100 * Unit
                  ELSE RoundTo(100 * Unit * (g \div c), (g + l) \div c, prec)
             out == SetAt(rsi, i, v)
         IN  IF i < Len(prices) - 1
             THEN LET change == At(prices, i + 1) - At(prices, i)
                      gain == IF change > 0 THEN change ELSE 0
                      loss == IF change < 0 THEN 0 - change ELSE 0
                      g2 == g * (period - 1) + gain * den
                      l2 == l * (period - 1) + loss * den
                      \* avg_gain = g2 / (den * period), in lowest common terms
                      k == GCD(GCD(g2, l2), den * period)
                  IN  RsiLoop(prices, period, prec, i + 1,
                              g2 \div k, l2 \div k, (den * period) \div k, out)
             ELSE RsiLoop(prices, period, prec, i + 1, g, l, den, out)

\* overflow_checks: the build traps integer overflow (debug) or wraps (release)
calculate_rsi(prices, period, prec, overflow_checks) ==
    IF Len(prices) < period + 1 THEN Ok(Zeros(Len(prices)))
    ELSE IF period = 0
         \* avg_gain = avg_loss = 0.0 / 0.0; (period - 1) as f64 once i < len - 1
         THEN IF Len(prices) > 1 /\ overflow_checks THEN Panic
              ELSE Ok([i \in 1..Len(prices) |-> NaN])
    ELSE Ok(RsiLoop(prices, period, prec, period,
                    RsiGains(prices, period), RsiLosses(prices, period), period,
                    Zeros(Len(prices))))

\* sum over slice = prices[i - period + 1 ..= i] of (price - mean)^2
RECURSIVE SquaredDeviations(_, _, _, _)
SquaredDeviations(prices, i, n, mean) ==
    IF n = 0 THEN 0
    ELSE (At(prices, i - n + 1) - mean) * (At(prices, i - n + 1) - mean)
         + SquaredDeviations(prices, i, n - 1, mean)

\* BollingerLoop with the signs of the two bands exchanged
RECURSIVE BollingerLoop_Swapped(_, _, _, _, _, _, _, _)
BollingerLoop_Swapped(prices, period, std_dev, prec, i, sma, upper_band, lower_band) ==
    IF i >= Len(prices) THEN <<upper_band, sma, lower_band>>
    ELSE LET mean == At(sma, i)
             ss == SquaredDeviations(prices, i, period, mean)
             b == std_dev * std_dev * ss * period
         IN  BollingerLoop_Swapped(prices, period, std_dev, prec, i + 1, sma,
                 SetAt(upper_band, i, RoundToSurd(mean * period, 0 - 1, b, period, prec)),
                 SetAt(lower_band, i, RoundToSurd(mean * period, 1, b, period, prec)))

\* for i in period - 1..prices.len()
RECURSIVE BollingerLoop(_, _, _, _, _, _, _, _)
BollingerLoop(prices, period, std_dev, prec, i, sma, upper_band, lower_band) ==
    IF i >= Len(prices) THEN <<upper_band, sma, lower_band>>
    ELSE LET mean == At(sma, i)
             ss == SquaredDeviations(prices, i, period, mean)
             \* mean +- std_dev * sqrt(ss / period)
             \*   = (mean * period +- sqrt(std_dev^2 * ss * period)) / period
             b == std_dev * std_dev * ss * period
         IN  BollingerLoop(prices, period, std_dev, prec, i + 1, sma,
                 SetAt(upper_band, i, RoundToSurd(mean * period, 1, b, period, prec)),
                 SetAt(lower_band, i, RoundToSurd(mean * period, 0 - 1, b, period, prec)))

calculate_bollinger_bands(prices, period, std_dev, prec) ==
    LET sma == calculate_sma(prices, period, prec)
    IN  IF sma.panic THEN Panic
        ELSE Ok(BollingerLoop(prices, period, std_dev, prec, period - 1, sma.val,
                              Zeros(Len(prices)), Zeros(Len(prices))))

\* calculate_macd whose histogram is not scaled by 1000
calculate_macd_NoScale(prices, fast_period, slow_period, signal_period, prec) ==
    LET ema_fast == calculate_ema(prices, fast_period, prec).val
        ema_slow == calculate_ema(prices, slow_period, prec).val
        macd_line == [i \in 1..Len(prices) |-> RoundTo(ema_fast[i] - ema_slow[i], 1, prec)]
        signal_line == calculate_ema(macd_line, signal_period, prec).val
        histogram == [i \in 1..Len(prices) |->
                         RoundTo(macd_line[i] - signal_line[i], 1, prec)]
    IN  Ok(<<macd_line, signal_line, histogram>>)

calculate_macd(prices, fast_period, slow_period, signal_period, prec) ==
    LET ema_fast == calculate_ema(prices, fast_period, prec).val
        ema_slow == calculate_ema(prices, slow_period, prec).val
        macd_line == [i \in 1..Len(prices) |-> RoundTo(ema_fast[i] - ema_slow[i], 1, prec)]
        signal_line == calculate_ema(macd_line, signal_period, prec).val
        histogram == [i \in 1..Len(prices) |->
                         RoundTo((macd_line[i] - signal_line[i]) * 1000, 1, prec)]
    IN  Ok(<<macd_line, signal_line, histogram>>)

\* RsiSignal whose thresholds are inclusive
RsiSignal_Inclusive(rsi) ==
    IF rsi >= 70 * Unit THEN "Sell"
    ELSE IF rsi <= 30 * Unit THEN "Buy"
    ELSE "Hold"

\* the per-point signal of calculate_from_market_data
RsiSignal(rsi) ==
    IF rsi > 70 * Unit THEN "Sell"
    ELSE IF rsi < 30 * Unit THEN "Buy"
    ELSE "Hold"

IndicatorResult(name, timestamps, values, signals) ==
    [name |-> name, timestamps |-> timestamps, values |-> values, signals |-> signals]

\* calculate_from_market_data that rejects a series too short for RSI(14)
calculate_from_market_data_Warmup(d, symbol, prec, overflow_checks) ==
    IF Len(d) < 15 THEN Err("InvalidInput")
    ELSE LET rsi == calculate_rsi(PricesOf(d), 14, prec, overflow_checks)
         IN  IF rsi.panic THEN Panic
             ELSE Ok(IndicatorResult("RSI(14)", TimestampsOf(d), rsi.val,
                                     [i \in 1..Len(rsi.val) |-> RsiSignal(rsi.val[i])]))

calculate_from_market_data(d, symbol, prec, overflow_checks) ==
    IF Len(d) = 0 THEN Err("InvalidInput")
    ELSE LET rsi == calculate_rsi(PricesOf(d), 14, prec, overflow_checks)
         IN  IF rsi.panic THEN Panic
             ELSE Ok(IndicatorResult("RSI(14)", TimestampsOf(d), rsi.val,
                                     [i \in 1..Len(rsi.val) |-> RsiSignal(rsi.val[i])]))

\* ------------------------------------------------------ the analysis engine
\* Option<f64>::None; Some(x) is x.  The Sharpe ratio Some(num / sqrt(den_sq))
\* keeps its numerator and the square of its denominator
NoneF64 == [some |-> FALSE, num |-> FInt(0), den_sq |-> FInt(0)]
SomeQuotient(num, den_sq) == [some |-> TRUE, num |-> num, den_sq |-> den_sq]

\* the f64 volatility = sqrt(variance) * sqrt(252), kept as its square; nan
\* when the variance is 0.0 / 0.0
Volatility(sq) == [nan |-> FALSE, sq |-> sq]
VolatilityNaN == [nan |-> TRUE, sq |-> FInt(0)]
\* volatility >= x / y
VolatilityAbove_OrEqual(v, x, y) == ~v.nan /\ ~FLess(v.sq, Frac(x * x, y * y))
\* volatility > x / y, for x / y >= 0 (a comparison with NaN is false)
VolatilityAbove(v, x, y) == ~v.nan /\ FLess(Frac(x * x, y * y), v.sq)

RiskMetrics(volatility, sharpe_ratio, max_drawdown, beta) ==
    [volatility |-> volatility, sharpe_ratio |-> sharpe_ratio,
     max_drawdown |-> max_drawdown, beta |-> beta]

\* prices.iter().zip(prices.iter().skip(1)).map(|(prev, curr)| (curr - prev) / prev)
Returns(prices) ==
    [i \in 1..Len(prices) - 1 |->
        FDiv(FInt(prices[i + 1] - prices[i]), FInt(prices[i]))]

\* the exact sum of fs[lo..hi]; exact addition is associative, so the sum is
\* taken by halves
RECURSIVE FSumRange(_, _, _)
FSumRange(fs, lo, hi) ==
    IF lo > hi THEN FInt(0)
    ELSE IF lo = hi THEN fs[lo]
    ELSE LET mid == (lo + hi) \div 2
         IN  FAdd(FSumRange(fs, lo, mid), FSumRange(fs, mid + 1, hi))

\* iter().sum() of the first n elements
FSum(fs, n) == FSumRange(fs, 1, n)

\* DrawdownLoop that measures every price against the first price
RECURSIVE DrawdownLoop_FirstPrice(_, _, _, _)
DrawdownLoop_FirstPrice(prices, i, max_price, max_drawdown) ==
    IF i >= Len(prices) THEN max_drawdown
    ELSE LET price == At(prices, i)
             drawdown == Frac(max_price - price, max_price)
         IN  IF FLess(max_drawdown, drawdown)
             THEN DrawdownLoop_FirstPrice(prices, i + 1, max_price, drawdown)
             ELSE DrawdownLoop_FirstPrice(prices, i + 1, max_price, max_drawdown)

\* for &price in prices.iter().skip(1): the running maximum and the drawdown
RECURSIVE DrawdownLoop(_, _, _, _)
DrawdownLoop(prices, i, max_price, max_drawdown) ==
    IF i >= Len(prices) THEN max_drawdown
    ELSE LET price == At(prices, i)
             mp == IF price > max_price THEN price ELSE max_price
             drawdown == Frac(mp - price, mp)
         \* if drawdown > max_drawdown { max_drawdown = drawdown }
         IN  IF FLess(max_drawdown, drawdown)
             THEN DrawdownLoop(prices, i + 1, mp, drawdown)
             ELSE DrawdownLoop(prices, i + 1, mp, max_drawdown)

\* calculate_risk_metrics whose short-series result has a Sharpe ratio of 0.0
calculate_risk_metrics_ZeroSharpe(prices) ==
    IF Len(prices) < 2
    THEN RiskMetrics(Volatility(FInt(0)), SomeQuotient(FInt(0), FInt(1)), FInt(0), NoneF64)
    ELSE LET returns == Returns(prices)
             mean_return == FDiv(FSum(returns, Len(returns)), FInt(Len(returns)))
             squares == [i \in 1..Len(returns) |->
                            FMul(FSub(returns[i], mean_return), FSub(returns[i], mean_return))]
             \* a single return: 0.0 / 0 as f64
             volatility ==
                 IF Len(returns) - 1 = 0 THEN VolatilityNaN
                 ELSE Volatility(FMul(FDiv(FSum(squares, Len(squares)),
                                           FInt(Len(returns) - 1)), FInt(252)))
             max_drawdown == DrawdownLoop(prices, 1, At(prices, 0), FInt(0))
             annual_return ==
                 FMul(FSub(Frac(At(prices, Len(prices) - 1), At(prices, 0)), FInt(1)),
                      Frac(252, Len(prices)))
             risk_free_rate == Frac(2, 100)
             sharpe_ratio ==
                 IF VolatilityAbove(volatility, 0, 1)
                 THEN SomeQuotient(FSub(annual_return, risk_free_rate), volatility.sq)
                 ELSE NoneF64
         IN  RiskMetrics(volatility, sharpe_ratio, max_drawdown, NoneF64)

calculate_risk_metrics(prices) ==
    IF Len(prices) < 2
    THEN RiskMetrics(Volatility(FInt(0)), NoneF64, FInt(0), NoneF64)
    ELSE LET returns == Returns(prices)
             mean_return == FDiv(FSum(returns, Len(returns)), FInt(Len(returns)))
             squares == [i \in 1..Len(returns) |->
                            FMul(FSub(returns[i], mean_return), FSub(returns[i], mean_return))]
             \* a single return: 0.0 / 0 as f64
             volatility ==
                 IF Len(returns) - 1 = 0 THEN VolatilityNaN
                 ELSE Volatility(FMul(FDiv(FSum(squares, Len(squares)),
                                           FInt(Len(returns) - 1)), FInt(252)))
             max_drawdown == DrawdownLoop(prices, 1, At(prices, 0), FInt(0))
             annual_return ==
                 FMul(FSub(Frac(At(prices, Len(prices) - 1), At(prices, 0)), FInt(1)),
                      Frac(252, Len(prices)))
             risk_free_rate == Frac(2, 100)
             sharpe_ratio ==
                 IF VolatilityAbove(volatility, 0, 1)
                 THEN SomeQuotient(FSub(annual_return, risk_free_rate), volatility.sq)
                 ELSE NoneF64
         IN  RiskMetrics(volatility, sharpe_ratio, max_drawdown, NoneF64)

\* Votes whose MACD comparison is not strict
RECURSIVE Votes_MacdNotStrict(_, _)
Votes_MacdNotStrict(indicators, n) ==
    IF n = 0 THEN <<0, 0>>
    ELSE LET v == Votes_MacdNotStrict(indicators, n - 1)
             indicator == indicators[n]
             len == Len(indicator.values)
         IN  IF len = 0 THEN v
             ELSE LET latest_value == At(indicator.values, len - 1)
                  IN  IF indicator.name = "RSI(14)"
                      THEN IF latest_value < 30 * Unit THEN <<v[1] + 1, v[2]>>
                           ELSE IF latest_value > 70 * Unit THEN <<v[1], v[2] + 1>>
                           ELSE v
                      ELSE IF indicator.name = "MACD"
                      \* values.get(len.saturating_sub(9))
                      THEN LET macd == At(indicator.values, len - 1)
                               signal == At(indicator.values, IF len >= 9 THEN len - 9 ELSE 0)
                           IN  IF macd >= signal THEN <<v[1] + 1, v[2]>>
                               ELSE <<v[1], v[2] + 1>>
                      ELSE v

\* for indicator in indicators: the votes <<buy_signals, sell_signals>>
RECURSIVE Votes(_, _)
Votes(indicators, n) ==
    IF n = 0 THEN <<0, 0>>
    ELSE LET v == Votes(indicators, n - 1)
             indicator == indicators[n]
             len == Len(indicator.values)
         IN  IF len = 0 THEN v
             ELSE LET latest_value == At(indicator.values, len - 1)
                  IN  IF indicator.name = "RSI(14)"
                      THEN IF latest_value < 30 * Unit THEN <<v[1] + 1, v[2]>>
                           ELSE IF latest_value > 70 * Unit THEN <<v[1], v[2] + 1>>
                           ELSE v
                      ELSE IF indicator.name = "MACD"
                      \* values.get(len.saturating_sub(9))
                      THEN LET macd == At(indicator.values, len - 1)
                               signal == At(indicator.values, IF len >= 9 THEN len - 9 ELSE 0)
                           IN  IF macd > signal THEN <<v[1] + 1, v[2]>>
                               ELSE <<v[1], v[2] + 1>>
                      ELSE v

\* generate_recommendation that does not weigh the buy votes by the volatility
generate_recommendation_NoHalving(indicators, risk_metrics) ==
    LET v == Votes(indicators, Len(indicators))
        buy_signals == v[1]
        sell_signals == IF FLess(Frac(2, 10), risk_metrics.max_drawdown)
                        THEN v[2] + 1 ELSE v[2]
    IN  IF buy_signals > sell_signals THEN "Buy"
        ELSE IF sell_signals > buy_signals THEN "Sell"
        ELSE "Hold"

\* generate_recommendation that rounds the halved buy votes up
generate_recommendation_HalveUp(indicators, risk_metrics) ==
    LET v == Votes(indicators, Len(indicators))
        buy_signals == IF VolatilityAbove(risk_metrics.volatility, 1, 2)
                       THEN (v[1] + 1) \div 2 ELSE v[1]
        sell_signals == IF FLess(Frac(2, 10), risk_metrics.max_drawdown)
                        THEN v[2] + 1 ELSE v[2]
    IN  IF buy_signals > sell_signals THEN "Buy"
        ELSE IF sell_signals > buy_signals THEN "Sell"
        ELSE "Hold"

generate_recommendation(indicators, risk_metrics) ==
    LET v == Votes(indicators, Len(indicators))
        buy_signals == IF VolatilityAbove(risk_metrics.volatility, 1, 2)
                       THEN v[1] \div 2 ELSE v[1]
        sell_signals == IF FLess(Frac(2, 10), risk_metrics.max_drawdown)
                        THEN v[2] + 1 ELSE v[2]
    IN  IF buy_signals > sell_signals THEN "Buy"
        ELSE IF sell_signals > buy_signals THEN "Sell"
        ELSE "Hold"

\* calculate_confidence that scores every valid series with 100 and does not
\* clamp
calculate_confidence_Unclamped(indicators, risk_metrics) ==
    IF Len(indicators) = 0 THEN 0
    ELSE Cardinality({ i \in 1..Len(indicators) : Len(indicators[i].values) # 0 }) * 100 * Unit

\* calculate_confidence that counts the series holding a value other than 0.0
calculate_confidence_NonZero(indicators, risk_metrics) ==
    IF Len(indicators) = 0 THEN 0
    ELSE LET valid_indicators ==
                 Cardinality({ i \in 1..Len(indicators) :
                                 \E j \in 1..Len(indicators[i].values) :
                                    indicators[i].values[j] # 0 })
         IN  (valid_indicators * 100 * Unit) \div Len(indicators)

\* the confidence, in 1/Unit
calculate_confidence(indicators, risk_metrics) ==
    IF Len(indicators) = 0 THEN 0
    ELSE LET valid_indicators ==
                 Cardinality({ i \in 1..Len(indicators) : Len(indicators[i].values) # 0 })
             base_confidence == (valid_indicators * 100 * Unit) \div Len(indicators)
         IN  IF base_confidence > 100 * Unit THEN 100 * Unit
             ELSE IF base_confidence < 0 THEN 0
             ELSE base_confidence

AnalysisResult(symbol, analyzed_at, indicators, risk_metrics, recommendation, confidence) ==
    [symbol |-> symbol, analyzed_at |-> analyzed_at, indicators |-> indicators,
     risk_metrics |-> risk_metrics, recommendation |-> recommendation,
     confidence |-> confidence]

\* analyze_symbol that labels the result with the symbol of the latest point
analyze_symbol_LatestSymbol(d, prec, now, overflow_checks) ==
    IF Len(d) = 0 THEN Err("InvalidInput")
    ELSE LET symbol == At(d, Len(d) - 1).symbol
             rsi_result == calculate_from_market_data(d, symbol, prec, overflow_checks)
             prices == PricesOf(d)
             timestamps == TimestampsOf(d)
             sma_short == calculate_sma(prices, 20, prec)
             sma_long == calculate_sma(prices, 50, prec)
             macd == calculate_macd(prices, 12, 26, 9, prec)
         IN  IF rsi_result.err # "none" THEN Err(rsi_result.err)   \* the ? operator
             ELSE IF rsi_result.panic \/ sma_short.panic \/ sma_long.panic \/ macd.panic
             THEN Panic
             ELSE LET indicators ==
                          << rsi_result.val,
                             IndicatorResult("SMA(20)", timestamps, sma_short.val, <<>>),
                             IndicatorResult("SMA(50)", timestamps, sma_long.val, <<>>),
                             IndicatorResult("MACD", timestamps, macd.val[1], <<>>) >>
                      risk_metrics == calculate_risk_metrics(prices)
                      recommendation == generate_recommendation(indicators, risk_metrics)
                      confidence == calculate_confidence(indicators, risk_metrics)
                  IN  Ok(AnalysisResult(symbol, now, indicators, risk_metrics,
                                        recommendation, confidence))

\* now: what Utc::now() returns
analyze_symbol(d, prec, now, overflow_checks) ==
    IF Len(d) = 0 THEN Err("InvalidInput")
    ELSE LET symbol == At(d, 0).symbol
             rsi_result == calculate_from_market_data(d, symbol, prec, overflow_checks)
             prices == PricesOf(d)
             timestamps == TimestampsOf(d)
             sma_short == calculate_sma(prices, 20, prec)
             sma_long == calculate_sma(prices, 50, prec)
             macd == calculate_macd(prices, 12, 26, 9, prec)
         IN  IF rsi_result.err # "none" THEN Err(rsi_result.err)   \* the ? operator
             ELSE IF rsi_result.panic \/ sma_short.panic \/ sma_long.panic \/ macd.panic
             THEN Panic
             ELSE LET indicators ==
                          << rsi_result.val,
                             IndicatorResult("SMA(20)", timestamps, sma_short.val, <<>>),
                             IndicatorResult("SMA(50)", timestamps, sma_long.val, <<>>),
                             IndicatorResult("MACD", timestamps, macd.val[1], <<>>) >>
                      risk_metrics == calculate_risk_metrics(prices)
                      recommendation == generate_recommendation(indicators, risk_metrics)
                      confidence == calculate_confidence(indicators, risk_metrics)
                  IN  Ok(AnalysisResult(symbol, now, indicators, risk_metrics,
                                        recommendation, confidence))

\* ------------------------------------------------- the indicator library
\* every sequence over S of length at most n
RECURSIVE SeqsUpTo(_, _)
SeqsUpTo(S, n) ==
    IF n = 0 THEN { <<>> }
    ELSE LET shorter == SeqsUpTo(S, n - 1)
         IN  shorter \cup { Append(s, x) : s \in { t \in shorter : Len(t) = n - 1 }, x \in S }

\* MarketData::new / with_ohlcv: one observation of one instrument
MarketData(symbol, price, timestamp) ==
    [symbol |-> symbol, price |-> price, timestamp |-> timestamp]

\* a series of one instrument, in ascending time order
SeriesOf(symbol, prices) ==
    [i \in 1..Len(prices) |-> MarketData(symbol, prices[i], i)]

NoCall == [op |-> "none", args |-> <<>>]

\* the prices of test_sma_calculation: 1.0, 2.0, 3.0, 4.0, 5.0
TestPrices == [i \in 1..5 |-> i * Unit]

\* TechnicalIndicators::new / with_precision, and the caller's input series
Init ==
    /\ precision \in Precisions
    /\ data \in { SeriesOf("AAPL", ps) : ps \in SeqsUpTo(Prices, MaxLen) \cup { TestPrices } }
    /\ call = NoCall
    /\ ret = Ok(<<>>)

CalculateSma ==
    \E period \in Periods :
        /\ call = NoCall
        /\ call' = [op |-> "calculate_sma", args |-> <<period>>]
        /\ ret' = calculate_sma(PricesOf(data), period, precision)
        /\ UNCHANGED <<precision, data>>

CalculateEma ==
    \E period \in Periods :
        /\ call = NoCall
        /\ call' = [op |-> "calculate_ema", args |-> <<period>>]
        /\ ret' = calculate_ema(PricesOf(data), period, precision)
        /\ UNCHANGED <<precision, data>>

CalculateRsi ==
    \E period \in Periods, overflow_checks \in BOOLEAN :
        /\ call = NoCall
        /\ call' = [op |-> "calculate_rsi", args |-> <<period>>]
        /\ ret' = calculate_rsi(PricesOf(data), period, precision, overflow_checks)
        /\ UNCHANGED <<precision, data>>

CalculateBollingerBands ==
    \E period \in Periods, std_dev \in 0..MaxK :
        /\ call = NoCall
        /\ call' = [op |-> "calculate_bollinger_bands", args |-> <<period, std_dev>>]
        /\ ret' = calculate_bollinger_bands(PricesOf(data), period, std_dev, precision)
        /\ UNCHANGED <<precision, data>>

CalculateMacd ==
    \E fast \in Periods, slow \in Periods, signal \in Periods :
        /\ call = NoCall
        /\ call' = [op |-> "calculate_macd", args |-> <<fast, slow, signal>>]
        /\ ret' = calculate_macd(PricesOf(data), fast, slow, signal, precision)
        /\ UNCHANGED <<precision, data>>

\* the caller takes the returned value; the calculator is ready for the next call
Return ==
    /\ call # NoCall
    /\ call' = NoCall
    /\ ret' = Ok(<<>>)
    /\ UNCHANGED <<precision, data>>

Next ==
    \/ CalculateSma
    \/ CalculateEma
    \/ CalculateRsi
    \/ CalculateBollingerBands
    \/ CalculateMacd
    \/ Return

Spec == Init /\ [][Next]_vars

\* --------------------------------------------- the analysis engine's calls
Symbols == {"AAPL", "MSFT"}
Moves == {0 - 1, 0, 1}

\* n price levels in 1..MaxPriceK: from start, the moves m1, m2, m1, ... in turn
RECURSIVE WalkLevels(_, _, _, _)
WalkLevels(start, m1, m2, n) ==
    IF n = 0 THEN <<>>
    ELSE IF n = 1 THEN <<start>>
    ELSE LET prev == WalkLevels(start, m1, m2, n - 1)
             next == prev[n - 1] + (IF n % 2 = 0 THEN m1 ELSE m2)
         IN  Append(prev, IF next < 1 THEN 1 ELSE IF next > MaxPriceK THEN MaxPriceK ELSE next)

\* a series in ascending time order whose first point has symbol first and
\* whose later points have symbol rest
WalkSeries(first, rest, levels) ==
    [i \in 1..Len(levels) |->
        MarketData(IF i = 1 THEN first ELSE rest, PriceStep * levels[i], i)]

\* 15 price levels whose 14 changes hold 7 rises and 3 falls of one level:
\* the RSI(14) of the last point is exactly 70
OverboughtLevels == <<1, 2, 3, 4, 5, 4, 3, 4, 5, 4, 5, 5, 5, 5, 5>>
\* the mirrored levels, 3 rises and 7 falls: the RSI(14) is exactly 30
OversoldLevels == <<5, 4, 3, 2, 1, 2, 3, 2, 1, 2, 1, 1, 1, 1, 1>>

\* 13 flat points and a rise of a tenth: a volatility below 0.5
CalmRiseLevels == [i \in 1..14 |-> IF i < 14 THEN 40 ELSE 44]
\* a fall of a quarter and a rally: a drawdown above 0.2 while MACD rises
DrawdownRallyLevels == <<4, 3, 5, 6>>
\* a fall of a quarter, a recovery to a new high and 11 flat points
RecoveredLevels == <<4, 3, 4, 5, 6, 6, 6, 6, 6, 6, 6, 6, 6, 6, 6, 6>>
\* 52 points that never fall: 50 flat points and two rises
LongRiseLevels == [i \in 1..52 |-> IF i <= 50 THEN 10 ELSE i - 40]
\* 52 flat points, enough for every warm-up period
LongFlatLevels == [i \in 1..52 |-> 10]
\* 15 points that move a tenth down and up in turn and a final rise: a
\* volatility above 0.5, a drawdown of 0.1 and an RSI between 30 and 70
ChoppyRiseLevels == [i \in 1..16 |-> IF i = 16 THEN 44 ELSE IF i % 2 = 1 THEN 40 ELSE 36]
ScenarioLevels ==
    { OverboughtLevels, OversoldLevels, CalmRiseLevels, DrawdownRallyLevels,
      RecoveredLevels, ChoppyRiseLevels, LongRiseLevels, LongFlatLevels }

\* AnalysisEngine::new / with_precision, and the caller's input series
InitAnalysis ==
    /\ precision \in Precisions
    /\ data \in { WalkSeries(first, rest, WalkLevels(start, m1, m2, n)) :
                    first \in Symbols, rest \in Symbols, start \in 1..MaxPriceK,
                    m1 \in Moves, m2 \in Moves, n \in 0..MaxAnalysisLen }
               \cup { WalkSeries("AAPL", "AAPL", levels) : levels \in ScenarioLevels }
    /\ call = NoCall
    /\ ret = Ok(<<>>)

AnalyzeSymbol ==
    \E now \in 1..MaxClock, overflow_checks \in BOOLEAN :
        /\ call = NoCall
        /\ call' = [op |-> "analyze_symbol", args |-> <<>>]
        /\ ret' = analyze_symbol(data, precision, now, overflow_checks)
        /\ UNCHANGED <<precision, data>>

CalculateRiskMetrics ==
    /\ call = NoCall
    /\ call' = [op |-> "calculate_risk_metrics", args |-> <<>>]
    /\ ret' = Ok(calculate_risk_metrics(PricesOf(data)))
    /\ UNCHANGED <<precision, data>>

NextAnalysis ==
    \/ AnalyzeSymbol
    \/ CalculateRiskMetrics
    \/ Return

SpecAnalysis == InitAnalysis /\ [][NextAnalysis]_vars

\* ------------------------------------------------- the rounding functions
\* the values n / d in 1/Unit: every multiple of 1/Unit up to MaxValue in
\* size, and the 3.14159 of test_numeric_utils
Pi5 == [n |-> 314159, d |-> 100000 \div Unit]
RoundValues ==
    { [n |-> k, d |-> 1] : k \in (0 - MaxValue * Unit)..(MaxValue * Unit) }
        \cup { Pi5 }
\* the precisions that 1/Unit can hold
RoundPrecisions == 0..Digits
RoundingOps == {"RoundTo::round_to", "numeric::round_to", "Utils::round_to"}

\* the rounding function of the name op
RoundWith(op, n, d, p) ==
    IF op = "RoundTo::round_to" THEN RoundTo(n, d, p)
    ELSE IF op = "numeric::round_to" THEN numeric_round_to(n, d, p)
    ELSE Utils_round_to(n, d, p)

InitRounding ==
    /\ precision \in RoundPrecisions
    /\ data \in { <<v>> : v \in RoundValues }
    /\ call = NoCall
    /\ ret = Ok(<<>>)

\* value.round_to(precision) in the indicator library
TraitRoundTo ==
    /\ call = NoCall
    /\ call' = [op |-> "RoundTo::round_to", args |-> <<>>]
    /\ ret' = Ok(RoundTo(data[1].n, data[1].d, precision))
    /\ UNCHANGED <<precision, data>>

NumericRoundTo ==
    /\ call = NoCall
    /\ call' = [op |-> "numeric::round_to", args |-> <<>>]
    /\ ret' = Ok(numeric_round_to(data[1].n, data[1].d, precision))
    /\ UNCHANGED <<precision, data>>

UtilsRoundTo ==
    /\ call = NoCall
    /\ call' = [op |-> "Utils::round_to", args |-> <<>>]
    /\ ret' = Ok(Utils_round_to(data[1].n, data[1].d, precision))
    /\ UNCHANGED <<precision, data>>

\* the caller rounds the returned value once more, at the same precision;
\* args keeps the value that went in
RoundAgain ==
    /\ call.op \in RoundingOps
    /\ call.args = <<>>
    /\ call' = [call EXCEPT !.args = <<ret.val>>]
    /\ ret' = Ok(RoundWith(call.op, ret.val, 1, precision))
    /\ UNCHANGED <<precision, data>>

NextRounding ==
    \/ TraitRoundTo
    \/ NumericRoundTo
    \/ UtilsRoundTo
    \/ RoundAgain
    \/ Return

SpecRounding == InitRounding /\ [][NextRounding]_vars

\* ------------------------------------------- concurrent analysis calls
\* two invocations of analyze_symbol in flight at once, each on one of two
\* engines; precision maps an engine to its precision, and data, call and
\* ret map an invocation to its input, its position and its result
Tasks == {"first", "second"}
Engines == {"engine1", "engine2"}
ConcurrentInputs ==
    { WalkSeries(symbol, symbol, levels) :
        symbol \in Symbols,
        levels \in {<<2>>, <<1, 2, 3>>, <<3, 2, 1>>, ChoppyRiseLevels} }

\* the result of the invocation t, which reads the argument of another
\* invocation when that one started later on the same engine
InvocationResult_SharedInput(t, now, overflow_checks) ==
    LET later == { u \in Tasks : /\ u # t
                                 /\ call[u].engine = call[t].engine
                                 /\ call[u].pc # "idle"
                                 /\ call[u].started > call[t].started }
    IN  IF later = {} THEN analyze_symbol(data[t], precision[call[t].engine], now, overflow_checks)
        ELSE analyze_symbol(data[CHOOSE u \in later : TRUE], precision[call[t].engine],
                            now, overflow_checks)

\* the result of the invocation t: &self and the market_data argument are
\* all that analyze_symbol reads
InvocationResult(t, now, overflow_checks) ==
    analyze_symbol(data[t], precision[call[t].engine], now, overflow_checks)

InitConcurrent ==
    /\ precision \in [Engines -> Precisions]
    /\ data \in [Tasks -> ConcurrentInputs]
    /\ call \in [Tasks -> { [pc |-> "idle", engine |-> e, started |-> 0] : e \in Engines }]
    /\ ret = [t \in Tasks |-> Ok(<<>>)]

\* the invocation t is spawned: engine.analyze_symbol(&data, None)
Invoke(t) ==
    /\ call[t].pc = "idle"
    /\ call' = [call EXCEPT ![t] =
                    [pc |-> "running", engine |-> call[t].engine,
                     started |-> 1 + Cardinality({ u \in Tasks : call[u].pc # "idle" })]]
    /\ UNCHANGED <<precision, data, ret>>

\* the future of the invocation t runs to completion
Complete(t) ==
    \E now \in 1..MaxClock, overflow_checks \in BOOLEAN :
        /\ call[t].pc = "running"
        /\ call' = [call EXCEPT ![t].pc = "done"]
        /\ ret' = [ret EXCEPT ![t] = InvocationResult(t, now, overflow_checks)]
        /\ UNCHANGED <<precision, data>>

NextConcurrent ==
    \/ \E t \in Tasks : Invoke(t)
    \/ \E t \in Tasks : Complete(t)

SpecConcurrent == InitConcurrent /\ [][NextConcurrent]_vars

\* ------------------------------- the real-time feed's ConnectionManager
\* data is the HashMap connections (connection id -> sender); call holds the
\* holder of the Mutex, the call the holder is making and the log of the
\* calls completed, in the order of their lock; ret is what the last
\* get_connection_count returned; precision is not used
Handlers == {"handler1", "handler2"}
ConnectionIds == {"id1", "id2"}
ManagerOps == {"add_connection", "remove_connection", "get_connection_count"}
EmptyMap == [k \in {} |-> "data_sender"]

\* HashMap::insert: the entry of the key k is set, whether present or not
HashMapInsert(m, k, v) == [x \in DOMAIN m \cup {k} |-> IF x = k THEN v ELSE m[x]]

\* HashMap::remove that drops every entry holding the sender of the key k
HashMapRemove_BySender(m, k) ==
    IF k \in DOMAIN m THEN [x \in { y \in DOMAIN m : m[y] # m[k] } |-> m[x]] ELSE m

\* HashMap::remove: the entry of the key k is dropped if present
HashMapRemove(m, k) == [x \in DOMAIN m \ {k} |-> m[x]]

\* HashMap::len
HashMapLen(m) == Cardinality(DOMAIN m)

\* ConnectionManager::new
InitConnections ==
    /\ precision = 0
    /\ data = EmptyMap
    /\ call = [lock |-> "free", op |-> "none", id |-> "none", log |-> <<>>]
    /\ ret = Ok(0)

\* self.connections.lock().unwrap(): the handler h takes the free Mutex for
\* one call
Lock(h) ==
    \E op \in ManagerOps, id \in ConnectionIds :
        /\ call.lock = "free"
        /\ Len(call.log) < MaxOps
        /\ op = "get_connection_count" => id = "id1"
        /\ call' = [call EXCEPT !.lock = h, !.op = op,
                                 !.id = IF op = "get_connection_count" THEN "none" ELSE id]
        /\ UNCHANGED <<precision, data, ret>>

\* the entry logged for the call that completes, and the Mutex released
Completed ==
    [lock |-> "free", op |-> "none", id |-> "none",
     log |-> Append(call.log, [op |-> call.op, id |-> call.id])]

\* add_connection: insert(id, sender) under the lock
AddConnection(h) ==
    /\ call.lock = h
    /\ call.op = "add_connection"
    /\ data' = HashMapInsert(data, call.id, "data_sender")
    /\ call' = Completed
    /\ UNCHANGED <<precision, ret>>

\* remove_connection: remove(id) under the lock
RemoveConnection(h) ==
    /\ call.lock = h
    /\ call.op = "remove_connection"
    /\ data' = HashMapRemove(data, call.id)
    /\ call' = Completed
    /\ UNCHANGED <<precision, ret>>

\* get_connection_count: len() under the lock
GetConnectionCount(h) ==
    /\ call.lock = h
    /\ call.op = "get_connection_count"
    /\ ret' = Ok(HashMapLen(data))
    /\ call' = Completed
    /\ UNCHANGED <<precision, data>>

NextConnections ==
    \/ \E h \in Handlers : Lock(h)
    \/ \E h \in Handlers : AddConnection(h)
    \/ \E h \in Handlers : RemoveConnection(h)
    \/ \E h \in Handlers : GetConnectionCount(h)

SpecConnections == InitConnections /\ [][NextConnections]_vars

\* ------------------------------------------------------------ properties
P == PricesOf(data)
L == Len(P)
Called(op) == call.op = op
Period == call.args[1]
\* the distance between two neighbouring values of the configured precision
Grid == Unit \div Pow(10, precision)
SingleOps == {"calculate_sma", "calculate_ema", "calculate_rsi"}
TripleOps == {"calculate_macd", "calculate_bollinger_bands"}
\* the periods of the call (the Bollinger multiplier is no period)
PeriodsOfCall ==
    IF Called("calculate_macd") THEN {call.args[1], call.args[2], call.args[3]}
    ELSE {call.args[1]}
RightLength ==
    /\ ~ret.panic
    /\ call.op \in SingleOps => Len(ret.val) = L
    /\ call.op \in TripleOps => \A k \in 1..3 : Len(ret.val[k]) = L
StrictlyIncreasing(s) == \A i \in 1..Len(s) - 1 : s[i] < s[i + 1]

\* C1: analyze_symbol returns Err(InvalidInput) for the empty series and Ok
\* with an AnalysisResult for every non-empty series (any length, prices,
\* symbols); it produces no other error.
C1_AnalyzeErrOnlyOnEmpty ==
    Called("analyze_symbol")
        => /\ ~ret.panic
           /\ L = 0 => ret = Err("InvalidInput")
           /\ L >= 1 =>
                /\ ret.err = "none"
                /\ ret.val.symbol \in Symbols
                /\ Len(ret.val.indicators) = 4
                /\ ret.val.recommendation \in {"Buy", "Sell", "Hold", "None"}

C1_Witness ==
    /\ Called("analyze_symbol")
    /\ L >= 15
    /\ ret.err = "none"
    /\ data[1].symbol # data[L].symbol
    /\ \E i \in 1..L - 1 : P[i] > P[i + 1]

\* C2: for every series of length L (also 0, also shorter than the period)
\* and every period >= 1, SMA, EMA and RSI return a sequence of length L, and
\* MACD and Bollinger return three sequences of length L.
C2_LengthPreserved ==
    (call.op \in SingleOps \cup TripleOps /\ \A n \in PeriodsOfCall : n >= 1)
        => RightLength

C2_Witness ==
    /\ Called("calculate_bollinger_bands")
    /\ Period >= 1
    /\ L >= 1
    /\ L < Period
    /\ RightLength

\* C3: no indicator function fails for any series and any period >= 0
\* (also period 0): no panic, and a sequence of the input's length that
\* holds numbers.
C3_NeverFails ==
    call.op \in SingleOps \cup TripleOps
        => /\ RightLength
           /\ call.op \in SingleOps => \A i \in 1..L : ~IsNaN(ret.val[i])

\* the mean of prices[i - period + 1 ..= i], recomputed from the window
RECURSIVE WindowSum(_, _, _)
WindowSum(s, i, n) == IF n = 0 THEN 0 ELSE At(s, i - n + 1) + WindowSum(s, i, n - 1)

\* C4: SMA is 0.0 at every index i < period - 1 (at every index when the
\* series is shorter than the period) and the rounded mean of the trailing
\* window, recomputed directly, at every index i >= period - 1;
\* SMA([1,2,3,4,5], 3) = [0,0,2,3,4].
C4_SmaIsWindowMean ==
    (Called("calculate_sma") /\ Period >= 1)
        => /\ ~ret.panic
           /\ Len(ret.val) = L
           /\ \A i \in 0..L - 1 :
                At(ret.val, i) =
                    IF i < Period - 1 THEN 0
                    ELSE RoundTo(WindowSum(P, i, Period), Period, precision)
           /\ (P = TestPrices /\ Period = 3)
                => ret.val = <<0, 0, 2 * Unit, 3 * Unit, 4 * Unit>>

C4_Witness ==
    /\ Called("calculate_sma")
    /\ Period = 2
    /\ L = 4
    /\ At(ret.val, 0) = 0
    /\ At(ret.val, 3) # 0
    /\ At(ret.val, 3) # At(ret.val, 2)

\* C5: for a non-empty series and period >= 1, ema[0] = P[0] and every later
\* ema[i] is ema[i-1] + alpha * (P[i] - ema[i-1]), alpha = 2 / (period + 1),
\* rounded, with ema[i-1] the emitted output; this holds at every index,
\* also when the series is shorter than the period.
C5_EmaRecurrence ==
    (Called("calculate_ema") /\ Period >= 1 /\ L >= 1)
        => /\ ~ret.panic
           /\ Len(ret.val) = L
           /\ At(ret.val, 0) = At(P, 0)
           /\ \A i \in 1..L - 1 :
                LET prev == At(ret.val, i - 1)
                IN  At(ret.val, i) =
                        RoundTo(prev * (Period + 1) + 2 * (At(P, i) - prev),
                                Period + 1, precision)

C5_Witness ==
    /\ Called("calculate_ema")
    /\ L >= 2
    /\ L < Period
    /\ \A i \in 1..L : ret.val[i] # 0
    /\ At(ret.val, 1) # At(P, 1)

\* C6: every value every indicator function emits (EMA's index 0 too) is
\* rounded to the configured precision: a multiple of 10^-precision.
C6_AllOutputsRounded ==
    (call.op \in SingleOps \cup TripleOps /\ ~ret.panic /\ \A n \in PeriodsOfCall : n >= 1)
        => /\ call.op \in SingleOps => \A i \in 1..L : ret.val[i] % Grid = 0
           /\ call.op \in TripleOps =>
                \A k \in 1..3 : \A i \in 1..L : ret.val[k][i] % Grid = 0

\* C7: every non-placeholder RSI value (index i >= period of a series of
\* at least period + 1 prices) lies in [0, 100].
C7_RsiInRange ==
    (Called("calculate_rsi") /\ Period >= 1 /\ L >= Period + 1)
        => /\ ~ret.panic
           /\ \A i \in Period..L - 1 :
                /\ At(ret.val, i) >= 0
                /\ At(ret.val, i) <= 100 * Unit

C7_Witness ==
    /\ Called("calculate_rsi")
    /\ Period >= 1
    /\ L >= Period + 2
    /\ At(ret.val, L - 1) > 0
    /\ At(ret.val, L - 1) < 100 * Unit

\* Wilder's averages by index: the average at index period is the sum over
\* the first period deltas divided by period, the average at a later index i
\* is (average at i - 1) * (period - 1) plus the gain (loss) of the delta
\* P[i] - P[i-1], divided by period.  WilderGain(s, n, i) / n^(i-n+1) is the
\* average gain at index i.
Gain(s, i) == IF At(s, i) - At(s, i - 1) > 0 THEN At(s, i) - At(s, i - 1) ELSE 0
Loss(s, i) == IF At(s, i) - At(s, i - 1) < 0 THEN At(s, i - 1) - At(s, i) ELSE 0
RECURSIVE SeedSum(_, _, _)
SeedSum(s, n, isGain) ==
    IF n = 0 THEN 0
    ELSE SeedSum(s, n - 1, isGain) + (IF isGain THEN Gain(s, n) ELSE Loss(s, n))
RECURSIVE Wilder(_, _, _, _)
Wilder(s, n, i, isGain) ==
    IF i = n THEN SeedSum(s, n, isGain)
    ELSE Wilder(s, n, i - 1, isGain) * (n - 1)
         + (IF isGain THEN Gain(s, i) ELSE Loss(s, i)) * Pow(n, i - n)

\* C8: RSI uses Wilder smoothing: 0.0 at the indices i < period and
\* everywhere when the series has fewer than period + 1 prices; at index i >=
\* period, 100 when the average loss at i is 0 and otherwise
\* 100 - 100 / (1 + avg_gain / avg_loss) (rounded), the averages seeded from
\* the first period deltas and updated with the delta P[i] - P[i-1] before
\* rsi[i] is emitted.
C8_RsiWilder ==
    (Called("calculate_rsi") /\ Period >= 1)
        => /\ ~ret.panic
           /\ Len(ret.val) = L
           /\ \A i \in 0..L - 1 :
                At(ret.val, i) =
                    IF i < Period \/ L < Period + 1 THEN 0
                    ELSE LET g == Wilder(P, Period, i, TRUE)
                             l == Wilder(P, Period, i, FALSE)
                         IN  IF l = 0 THEN 100 * Unit
                             \* 100 - 100 / (1 + g / l) = (100 * (g + l) - 100 * l) / (g + l)
                             ELSE RoundTo(100 * Unit * (g + l) - 100 * Unit * l,
                                          g + l, precision)

C8_Witness ==
    /\ Called("calculate_rsi")
    /\ Period = 2
    /\ L = 4
    /\ At(ret.val, 1) = 0
    /\ At(ret.val, 2) # At(ret.val, 3)
    /\ At(ret.val, 2) \notin {0, 100 * Unit}
    /\ At(ret.val, 3) \notin {0, 100 * Unit}

\* C9: on a strictly increasing series of at least period + 1 prices RSI is
\* exactly 100 at every index i >= period.
C9_RsiIncreasing ==
    (Called("calculate_rsi") /\ Period >= 1 /\ L >= Period + 1 /\ StrictlyIncreasing(P))
        => /\ ~ret.panic
           /\ \A i \in Period..L - 1 : At(ret.val, i) = 100 * Unit

C9_Witness ==
    /\ Called("calculate_rsi")
    /\ Period >= 1
    /\ L >= Period + 2
    /\ StrictlyIncreasing(P)
    /\ At(ret.val, L - 1) = 100 * Unit

\* EMA by index, as the recurrence states it
RECURSIVE EmaAt(_, _, _, _)
EmaAt(s, n, prec, i) ==
    IF i = 0 THEN At(s, 0)
    ELSE LET prev == EmaAt(s, n, prec, i - 1)
         IN  RoundTo(prev * (n + 1) + 2 * (At(s, i) - prev), n + 1, prec)

\* C10: for periods fast, slow, signal >= 1, macd_line[i] = EMA(P, fast)[i] -
\* EMA(P, slow)[i], signal_line = EMA(macd_line, signal) and histogram[i] =
\* (macd_line[i] - signal_line[i]) * 1000 at every index, each rounded.
C10_Macd ==
    (Called("calculate_macd") /\ \A n \in PeriodsOfCall : n >= 1)
        => /\ ~ret.panic
           /\ \A k \in 1..3 : Len(ret.val[k]) = L
           /\ \A i \in 0..L - 1 :
                LET macd_line == ret.val[1]
                    signal_line == ret.val[2]
                    histogram == ret.val[3]
                IN  /\ At(macd_line, i) =
                          RoundTo(EmaAt(P, call.args[1], precision, i)
                                    - EmaAt(P, call.args[2], precision, i), 1, precision)
                    /\ At(signal_line, i) = EmaAt(macd_line, call.args[3], precision, i)
                    /\ At(histogram, i) =
                          RoundTo((At(macd_line, i) - At(signal_line, i)) * 1000, 1, precision)
                    /\ At(macd_line, i) % Grid = 0
                    /\ At(signal_line, i) % Grid = 0
                    /\ At(histogram, i) % Grid = 0

C10_Witness ==
    /\ Called("calculate_macd")
    /\ \A n \in PeriodsOfCall : n >= 1
    /\ L >= 3
    /\ At(ret.val[1], L - 1) # 0
    /\ At(ret.val[2], L - 1) # At(ret.val[1], L - 1)
    /\ At(ret.val[3], L - 1) # 0

\* C11: for every series, period >= 1 and multiplier k >= 0, at every
\* computed index i >= period - 1 the returned (rounded) bands satisfy
\* upper[i] >= middle[i] >= lower[i].
C11_BandsOrdered ==
    (Called("calculate_bollinger_bands") /\ Period >= 1)
        => /\ ~ret.panic
           /\ \A i \in Period - 1..L - 1 :
                /\ At(ret.val[1], i) >= At(ret.val[2], i)
                /\ At(ret.val[2], i) >= At(ret.val[3], i)

C11_Witness ==
    /\ Called("calculate_bollinger_bands")
    /\ Period >= 2
    /\ call.args[2] >= 1
    /\ L > Period
    /\ At(ret.val[1], L - 1) > At(ret.val[2], L - 1)
    /\ At(ret.val[2], L - 1) > At(ret.val[3], L - 1)
    /\ At(ret.val[3], L - 1) < 0

\* the sum of the squares of prices[i - n + 1 ..= i]
RECURSIVE WindowSquares(_, _, _)
WindowSquares(s, i, n) ==
    IF n = 0 THEN 0
    ELSE At(s, i - n + 1) * At(s, i - n + 1) + WindowSquares(s, i, n - 1)

\* period^2 times the population variance of the window ending at i:
\* sum of (p - mu)^2 / period with mu the window's mean, which is
\* (period * sum of p^2 - (sum of p)^2) / period^2
PopulationVarianceNum(s, i, n) ==
    n * WindowSquares(s, i, n) - WindowSum(s, i, n) * WindowSum(s, i, n)

\* C12: middle is calculate_sma(P, period) at every index; at i >= period - 1
\* the bands are middle +- k * sqrt(population variance of P[i-period+1..i])
\* (squared deviations from the window's mean, divided by period), rounded;
\* at i < period - 1 upper, middle and lower are 0.0.
C12_BollingerPopulation ==
    (Called("calculate_bollinger_bands") /\ Period >= 1)
        => /\ ~ret.panic
           /\ ret.val[2] = calculate_sma(P, Period, precision).val
           /\ \A i \in 0..L - 1 :
                LET k == call.args[2]
                    middle == At(ret.val[2], i)
                    b == k * k * PopulationVarianceNum(P, i, Period)
                IN  IF i < Period - 1
                    THEN At(ret.val[1], i) = 0 /\ middle = 0 /\ At(ret.val[3], i) = 0
                    ELSE /\ At(ret.val[1], i) =
                              RoundToSurd(middle * Period, 1, b, Period, precision)
                         /\ At(ret.val[3], i) =
                              RoundToSurd(middle * Period, 0 - 1, b, Period, precision)

\* the indicator series of an AnalysisResult
Indicators == ret.val.indicators
Analyzed == Called("analyze_symbol") /\ L >= 1 /\ ~ret.panic /\ ret.err = "none"

\* C13: for a non-empty series of length n the AnalysisResult carries exactly
\* the four series "RSI(14)", "SMA(20)", "SMA(50)", "MACD" in this order, each
\* with n values and the input timestamps in input order; the SMA and MACD
\* series have no signals, the RSI series has n; the symbol is that of the
\* first input point.
C13_ResultStructure ==
    (Called("analyze_symbol") /\ L >= 1)
        => /\ Analyzed
           /\ Len(Indicators) = 4
           /\ [k \in 1..4 |-> Indicators[k].name] = <<"RSI(14)", "SMA(20)", "SMA(50)", "MACD">>
           /\ \A k \in 1..4 :
                /\ Len(Indicators[k].values) = L
                /\ Indicators[k].timestamps = [i \in 1..L |-> data[i].timestamp]
           /\ Len(Indicators[1].signals) = L
           /\ \A k \in 2..4 : Indicators[k].signals = <<>>
           /\ ret.val.symbol = data[1].symbol

C13_Witness ==
    /\ Analyzed
    /\ L >= 15
    /\ data[1].symbol = "MSFT"
    /\ data[L].symbol = "AAPL"
    /\ ret.val.symbol = "MSFT"
    /\ Len(Indicators[4].values) = L

\* the values and the per-point signals of the "RSI(14)" series
RsiValues == Indicators[1].values
RsiSignals == Indicators[1].signals

\* C14: in the "RSI(14)" series the signal of every index follows from the
\* value of that index alone: above 70 Sell, below 30 Buy, otherwise
\* (exactly 70 and exactly 30 included) Hold; None is never produced.
C14_RsiSignalRule ==
    Analyzed
        => \A i \in 1..L :
             /\ RsiValues[i] > 70 * Unit => RsiSignals[i] = "Sell"
             /\ RsiValues[i] < 30 * Unit => RsiSignals[i] = "Buy"
             /\ (RsiValues[i] >= 30 * Unit /\ RsiValues[i] <= 70 * Unit)
                    => RsiSignals[i] = "Hold"
             /\ RsiSignals[i] # "None"

C14_Witness ==
    /\ Analyzed
    /\ L >= 15
    /\ RsiValues[L] = 70 * Unit
    /\ RsiSignals[L] = "Hold"

\* the votes <<buy, sell>> that the "RSI(14)" series of the result contributes
RsiVotes == Votes(<<Indicators[1]>>, 1)

\* C15: the engine treats warm-up placeholders as not yet available: an index
\* of the RSI(14) series that holds the placeholder (every index below 14,
\* so every index of a series of fewer than 15 points) carries neither Buy
\* nor Sell, and a placeholder latest value contributes no vote.
C15_PlaceholdersUnavailable ==
    Analyzed
        => /\ \A i \in 1..L : i <= 14 => RsiSignals[i] \notin {"Buy", "Sell"}
           /\ L < 15 => RsiVotes = <<0, 0>>

\* the RiskMetrics of the result of either call
Risk == IF Called("analyze_symbol") THEN ret.val.risk_metrics ELSE ret.val
RiskCalled ==
    \/ Called("calculate_risk_metrics")
    \/ Analyzed
DefaultRisk(r) ==
    /\ ~r.volatility.nan
    /\ r.volatility.sq = FInt(0)
    /\ r.max_drawdown = FInt(0)
    /\ ~r.sharpe_ratio.some
    /\ ~r.beta.some

\* C16: for a price sequence of length 0 or 1 calculate_risk_metrics returns
\* volatility 0, max_drawdown 0, no sharpe_ratio and no beta, and
\* analyze_symbol on a single-point series succeeds with these risk metrics.
C16_ShortSeriesRisk ==
    /\ (Called("calculate_risk_metrics") /\ L <= 1) => (~ret.panic /\ DefaultRisk(ret.val))
    /\ (Called("analyze_symbol") /\ L = 1) => (Analyzed /\ DefaultRisk(ret.val.risk_metrics))

C16_Witness ==
    /\ Called("analyze_symbol")
    /\ L = 1
    /\ ret.err = "none"
    /\ DefaultRisk(ret.val.risk_metrics)

\* the simple return r_t = (p_t - p_{t-1}) / p_{t-1} of the point t >= 2
SimpleReturn(t) == Frac(P[t] - P[t - 1], P[t - 1])
RECURSIVE SumReturns(_)
SumReturns(t) == IF t < 2 THEN FInt(0) ELSE FAdd(SumReturns(t - 1), SimpleReturn(t))
RECURSIVE SumSquaredReturns(_)
SumSquaredReturns(t) ==
    IF t < 2 THEN FInt(0)
    ELSE FAdd(SumSquaredReturns(t - 1), FMul(SimpleReturn(t), SimpleReturn(t)))
\* the sample variance of the m = L - 1 returns, for m >= 2:
\* (m * sum of r^2 - (sum of r)^2) / (m * (m - 1))
SampleVariance ==
    FDiv(FSub(FMul(FInt(L - 1), SumSquaredReturns(L)), FMul(SumReturns(L), SumReturns(L))),
         FInt((L - 1) * (L - 2)))

\* C17: for at least 2 positive prices (exactly 2 included) the volatility is
\* computed without a division by zero and is a defined number >= 0, the
\* sample standard deviation of the simple returns times sqrt(252); a zero
\* denominator yields a sentinel, never NaN or an infinity.
C17_VolatilityDefined ==
    (RiskCalled /\ L >= 2)
        => /\ ~Risk.volatility.nan
           /\ ~FLess(Risk.volatility.sq, FInt(0))
           /\ L >= 3 => Risk.volatility.sq = FMul(SampleVariance, FInt(252))

\* the greatest of the prices P[1..t]
RunningMax(t) == CHOOSE m \in { P[u] : u \in 1..t } : \A u \in 1..t : P[u] <= m
\* the drawdown of the point t: (runningMax_t - p_t) / runningMax_t
DrawdownAt(t) == Frac(RunningMax(t) - P[t], RunningMax(t))
NonDecreasing(s) == \A i \in 1..Len(s) - 1 : s[i] <= s[i + 1]

\* C18: for positive prices max_drawdown is the maximum over t of
\* (runningMax_t - p_t) / runningMax_t, with the running maximum taken left
\* to right from p_0; it lies in [0, 1] and is 0 for every non-decreasing
\* series.
C18_MaxDrawdown ==
    (RiskCalled /\ L >= 1)
        => /\ \E t \in 1..L : Risk.max_drawdown = DrawdownAt(t)
           /\ \A t \in 1..L : ~FLess(Risk.max_drawdown, DrawdownAt(t))
           /\ ~FLess(Risk.max_drawdown, FInt(0))
           /\ ~FLess(FInt(1), Risk.max_drawdown)
           /\ NonDecreasing(P) => Risk.max_drawdown = FInt(0)

C18_Witness ==
    /\ Called("calculate_risk_metrics")
    /\ L >= 3
    /\ RunningMax(L) > P[1]
    /\ FLess(Frac(P[1] - P[L], P[1]), Risk.max_drawdown)
    /\ FLess(FInt(0), Risk.max_drawdown)

\* annualizedReturn - 0.02, with annualizedReturn = (p_last / p_first - 1) * 252 / n
\* and n the number of prices
ExcessReturn ==
    Frac((P[L] - P[1]) * 252 * 50 - P[1] * L, 50 * P[1] * L)
VolatilityPositive == ~Risk.volatility.nan /\ FLess(FInt(0), Risk.volatility.sq)

\* C19: in every RiskMetrics returned sharpe_ratio is present exactly when
\* volatility > 0 and is then (annualizedReturn - 0.02) / volatility, with
\* annualizedReturn = (p_last / p_first - 1) * 252 / n; beta is absent in
\* every result.
C19_SharpeAndBeta ==
    RiskCalled
        => /\ Risk.sharpe_ratio.some <=> VolatilityPositive
           /\ Risk.sharpe_ratio.some =>
                /\ Risk.sharpe_ratio.num = ExcessReturn
                /\ Risk.sharpe_ratio.den_sq = Risk.volatility.sq
           /\ ~Risk.beta.some

C19_Witness ==
    /\ Called("calculate_risk_metrics")
    /\ L >= 3
    /\ P[L] > P[1]
    /\ VolatilityPositive
    /\ Risk.sharpe_ratio.some
    /\ FLess(FInt(0), Risk.sharpe_ratio.num)
    /\ ~Risk.beta.some

\* the values of the "MACD" series and the votes <<buy, sell>> it contributes
MacdValues == Indicators[4].values
MacdVotes == Votes(<<Indicators[4]>>, 1)

\* C20: the MACD series contributes exactly one vote per analysis, from the
\* comparison of its latest value (index n-1) with the value 9 bars earlier
\* (index n-1-9): a buy vote when strictly greater, a sell vote otherwise.
C20_MacdVoteNineBars ==
    Analyzed
        => /\ MacdVotes \in {<<1, 0>>, <<0, 1>>}
           /\ L >= 10 =>
                MacdVotes = IF MacdValues[L] > MacdValues[L - 9] THEN <<1, 0>> ELSE <<0, 1>>

\* the vote of the latest RSI value alone
LatestRsiVote ==
    IF RsiValues[L] < 30 * Unit THEN <<1, 0>>
    ELSE IF RsiValues[L] > 70 * Unit THEN <<0, 1>>
    ELSE <<0, 0>>
\* the votes before the risk adjustments
RawBuy == LatestRsiVote[1] + MacdVotes[1]
RawSell == LatestRsiVote[2] + MacdVotes[2]
HighVolatility == ~Risk.volatility.nan /\ FLess(Frac(1, 4), Risk.volatility.sq)
DeepDrawdown == FLess(Frac(1, 5), Risk.max_drawdown)
BuyCount == IF HighVolatility THEN RawBuy \div 2 ELSE RawBuy
SellCount == IF DeepDrawdown THEN RawSell + 1 ELSE RawSell

\* C21: the recommendation follows from the vote counters alone: RSI adds at
\* most one vote, from its latest value (< 30 buy, > 70 sell); SMA(20) and
\* SMA(50) add none; volatility > 0.5 halves the buy count with truncation,
\* then max_drawdown > 0.2 adds one sell vote; Buy when buy > sell, Sell when
\* sell > buy, Hold when equal.
C21_RecommendationFromVotes ==
    Analyzed
        => /\ RsiVotes = LatestRsiVote
           /\ Votes(<<Indicators[2]>>, 1) = <<0, 0>>
           /\ Votes(<<Indicators[3]>>, 1) = <<0, 0>>
           /\ Votes(Indicators, 4) = <<RawBuy, RawSell>>
           /\ ret.val.recommendation =
                IF BuyCount > SellCount THEN "Buy"
                ELSE IF SellCount > BuyCount THEN "Sell"
                ELSE "Hold"

C21_Witness ==
    /\ Analyzed
    /\ HighVolatility
    /\ DeepDrawdown
    /\ RawBuy = 2
    /\ BuyCount = 1
    /\ SellCount = 1
    /\ ret.val.recommendation = "Hold"

\* the first index that holds a computed value in RSI(14), SMA(20), SMA(50)
\* and MACD (every MACD index is computed)
FirstComputed == <<14, 19, 49, 0>>
\* the series of the result that hold at least one non-placeholder value
WithComputedValue == { k \in 1..4 : Len(Indicators[k].values) > FirstComputed[k] }

\* C22: the confidence is (number of indicator series with at least one
\* non-placeholder value) / (number of indicator series) * 100; a series too
\* short for an indicator's warm-up (fewer than 20 points for SMA(20), fewer
\* than 50 for SMA(50)) has a confidence below 100.
C22_ConfidenceCountsComputed ==
    Analyzed
        => /\ ret.val.confidence * 4 = Cardinality(WithComputedValue) * 100 * Unit
           /\ L < 50 => ret.val.confidence < 100 * Unit

\* C23: for every non-empty series (not only the non-decreasing ones of at
\* least 50 points) the confidence lies in [0, 100] and the recommendation
\* is Buy, Sell or Hold, never None.
C23_ConfidenceAndSignalRange ==
    (Called("analyze_symbol") /\ L >= 1)
        => /\ Analyzed
           /\ ret.val.confidence >= 0
           /\ ret.val.confidence <= 100 * Unit
           /\ ret.val.recommendation \in {"Buy", "Sell", "Hold"}

C23_Witness ==
    /\ Analyzed
    /\ L >= 50
    /\ NonDecreasing(P)
    /\ P[L] > P[1]
    /\ ret.val.confidence <= 100 * Unit
    /\ ret.val.recommendation = "Hold"

\* the value handed to the rounding function, as n / d in 1/Unit
RoundInput == data[1]
Rounded == call.op \in RoundingOps /\ call.args = <<>>
RoundedTwice == call.op \in RoundingOps /\ Len(call.args) = 1

\* C24: rounding is idempotent: round_to(round_to(v, p), p) = round_to(v, p)
\* for every value and precision.
C24_RoundingIdempotent ==
    RoundedTwice => (~ret.panic /\ ret.val = call.args[1])

C24_Witness ==
    /\ RoundedTwice
    /\ precision = 0
    /\ RoundInput.d = 1
    /\ RoundInput.n % Unit # 0
    /\ RoundInput.n < 0
    /\ ret.val = call.args[1]
    /\ ret.val # RoundInput.n

\* r is round-half-away-from-zero of n / d at the precision: a multiple of
\* 10^-precision at most half a step from n / d, the farther from zero at a tie
HalfAwayOf(r, n, d) ==
    /\ r % Grid = 0
    /\ 2 * Abs(r * d - n) <= Grid * d
    /\ 2 * Abs(r * d - n) = Grid * d => Abs(r) * d > Abs(n)

\* C25: RoundTo::round_to, utils::numeric::round_to and the browser binding's
\* Utils::round_to return the same result for every value and precision, the
\* round-half-away-from-zero of value * 10^precision divided back: 3.14159 at
\* precision 2 gives 3.14 and -0.5 at precision 0 gives -1.
C25_RoundingsAgree ==
    Rounded
        => /\ ~ret.panic
           /\ ret.val = RoundTo(RoundInput.n, RoundInput.d, precision)
           /\ ret.val = numeric_round_to(RoundInput.n, RoundInput.d, precision)
           /\ ret.val = Utils_round_to(RoundInput.n, RoundInput.d, precision)
           /\ HalfAwayOf(ret.val, RoundInput.n, RoundInput.d)
           /\ (RoundInput = Pi5 /\ precision = 2)
                => ret.val * 100 = 314 * Unit
           /\ (RoundInput.n * 2 = (0 - Unit) * RoundInput.d /\ precision = 0)
                => ret.val = 0 - Unit

C25_Witness ==
    /\ Rounded
    /\ call.op = "Utils::round_to"
    /\ precision = 0
    /\ RoundInput.n * 2 = 0 - Unit
    /\ RoundInput.d = 1
    /\ ret.val = 0 - Unit

\* a result without its analysis timestamp
WithoutTimestamp(r) == [r EXCEPT !.val.analyzed_at = 0]
Done(t) == call[t].pc = "done"

C27_ConfidenceAlways100 ==
    (Called("analyze_symbol") /\ L >= 1)
        => /\ Analyzed
           /\ \A k \in 1..4 : Len(Indicators[k].values) = L
           /\ ret.val.confidence = 100 * Unit

C27_Witness ==
    /\ Analyzed
    /\ L < 15
    /\ \A i \in 1..L : RsiValues[i] = 0
    /\ \A i \in 1..L : Indicators[2].values[i] = 0 /\ Indicators[3].values[i] = 0
    /\ ret.val.confidence = 100 * Unit

Constant(s) == \A i \in 1..Len(s) : s[i] = s[1]

\* C28: for every constant positive series of at least 15 points the
\* recommendation is Sell: the latest RSI is 100 (average loss 0) and votes
\* sell, the MACD line is 0 at every index and votes sell, volatility and
\* max_drawdown are 0, and there is no buy vote.
C28_FlatSeriesSell ==
    (Analyzed /\ L >= 15 /\ Constant(P))
        => /\ RsiValues[L] = 100 * Unit
           /\ RsiVotes = <<0, 1>>
           /\ \A i \in 1..L : MacdValues[i] = 0
           /\ MacdVotes = <<0, 1>>
           /\ ~Risk.volatility.nan /\ Risk.volatility.sq = FInt(0)
           /\ Risk.max_drawdown = FInt(0)
           /\ ret.val.recommendation = "Sell"

C28_Witness ==
    /\ Analyzed
    /\ L >= 50
    /\ Constant(P)
    /\ MacdValues[L] = 0
    /\ ret.val.recommendation = "Sell"

\* the counters after the loop over the indicators
LoopVotes == Votes(Indicators, 4)

\* C29: the vote counters are bounded (buy <= 2, sell <= 3) and, whenever
\* volatility > 0.5, the recommendation is Buy only if the latest RSI is
\* below 30, the MACD comparison votes buy and max_drawdown <= 0.2; with
\* volatility > 0.5 a single buy vote is truncated to zero and never gives Buy.
C29_BoundedVotesAndGuardedBuy ==
    Analyzed
        => /\ LoopVotes[1] \in 0..2
           /\ LoopVotes[2] \in 0..2
           /\ BuyCount \in 0..2
           /\ SellCount \in 0..3
           /\ (HighVolatility /\ ret.val.recommendation = "Buy")
                => /\ RsiValues[L] < 30 * Unit
                   /\ MacdVotes = <<1, 0>>
                   /\ ~DeepDrawdown
           /\ (HighVolatility /\ LoopVotes[1] = 1) => ret.val.recommendation # "Buy"

C29_Witness ==
    /\ Analyzed
    /\ L >= 15
    /\ HighVolatility
    /\ LoopVotes = <<1, 0>>
    /\ ~DeepDrawdown
    /\ ret.val.recommendation = "Hold"

\* the ids added and not removed afterwards, by the first n calls of the log
AddedNotRemoved(n) ==
    { id \in ConnectionIds :
        \E i \in 1..n :
            /\ call.log[i] = [op |-> "add_connection", id |-> id]
            /\ \A j \in i + 1..n : call.log[j] # [op |-> "remove_connection", id |-> id] }
Calls == Len(call.log)
CountReturned == Calls >= 1 /\ call.log[Calls].op = "get_connection_count"

\* C30: after any interleaving of add_connection and remove_connection calls
\* of concurrent handlers, get_connection_count is the number of distinct
\* ids added and not removed afterwards: an id added and then removed leaves
\* the count as before, adding an id already present does not change it, and
\* removing an absent id is a no-op.
C30_ConnectionCount ==
    /\ DOMAIN data = AddedNotRemoved(Calls)
    /\ CountReturned => (~ret.panic /\ ret.val = Cardinality(AddedNotRemoved(Calls)))

C30_Witness ==
    /\ Calls = 4
    /\ call.log[1] = [op |-> "add_connection", id |-> "id1"]
    /\ call.log[2] = [op |-> "add_connection", id |-> "id2"]
    /\ call.log[3] = [op |-> "remove_connection", id |-> "id1"]
    /\ CountReturned
    /\ ret.val = 1

====
